---- MODULE Spec2Model ----
(***************************************************************************)
(* Model of src/src/GRM_for_linear_LC.py: a script that assembles a        *)
(* chromatography process (component system, binding model, units, flow    *)
(* sheet, process, events), simulates it once with the baseline            *)
(* dispersion and then once per Peclet number of a sweep.                  *)
(*                                                                         *)
(* The program counter pc is the source line of the next statement.        *)
(* Python floats are IEEE 754 binary64 values, modelled exactly: a finite  *)
(* non-negative float is m * 2^e with 2^52 <= m < 2^53 (or zero); the      *)
(* mantissa is a natural number kept as a little-endian sequence of        *)
(* 15-bit limbs, since the products exceed TLC's 32-bit integers.           *)
(***************************************************************************)
EXTENDS Integers, Sequences, FiniteSets, TLC

(***************************************************************************)
(* Natural numbers of arbitrary size (little-endian limbs, no leading      *)
(* zero limb, zero is the empty sequence).                                 *)
(***************************************************************************)
Base == 2^15

Max(x, y) == IF x >= y THEN x ELSE y

Limb(a, i) == IF i <= Len(a) THEN a[i] ELSE 0

RECURSIVE Trim(_)
Trim(a) ==
    IF a = <<>> THEN a
    ELSE IF a[Len(a)] = 0 THEN Trim(SubSeq(a, 1, Len(a) - 1)) ELSE a

RECURSIVE BFromNat(_)
BFromNat(n) == IF n = 0 THEN <<>> ELSE <<n % Base>> \o BFromNat(n \div Base)

RECURSIVE BAddFrom(_, _, _, _)
BAddFrom(a, b, i, c) ==
    IF i > Max(Len(a), Len(b))
    THEN (IF c = 0 THEN <<>> ELSE <<c>>)
    ELSE LET s == Limb(a, i) + Limb(b, i) + c
         IN  <<s % Base>> \o BAddFrom(a, b, i + 1, s \div Base)

BAdd(a, b) == BAddFrom(a, b, 1, 0)

RECURSIVE BSubFrom(_, _, _, _)
BSubFrom(a, b, i, c) ==
    IF i > Len(a) THEN <<>>
    ELSE LET s == Limb(a, i) - Limb(b, i) - c
         IN  IF s < 0
             THEN <<s + Base>> \o BSubFrom(a, b, i + 1, 1)
             ELSE <<s>> \o BSubFrom(a, b, i + 1, 0)

\* a - b, for a >= b
BSub(a, b) == Trim(BSubFrom(a, b, 1, 0))

RECURSIVE BLessFrom(_, _, _)
BLessFrom(a, b, i) ==
    IF i = 0 THEN FALSE
    ELSE IF a[i] # b[i] THEN a[i] < b[i] ELSE BLessFrom(a, b, i - 1)

BLess(a, b) ==
    IF Len(a) # Len(b) THEN Len(a) < Len(b) ELSE BLessFrom(a, b, Len(a))

BLeq(a, b) == a = b \/ BLess(a, b)

RECURSIVE BMulSmallFrom(_, _, _, _)
BMulSmallFrom(a, x, i, c) ==
    IF i > Len(a)
    THEN (IF c = 0 THEN <<>> ELSE <<c>>)
    ELSE LET s == a[i] * x + c
         IN  <<s % Base>> \o BMulSmallFrom(a, x, i + 1, s \div Base)

\* a * x, for a limb-sized x (0 <= x < Base)
BMulSmall(a, x) == Trim(BMulSmallFrom(a, x, 1, 0))

Zeros(k) == [i \in 1..k |-> 0]

RECURSIVE BMulFrom(_, _, _)
BMulFrom(a, b, i) ==
    IF i > Len(a) THEN <<>>
    ELSE BAdd(Zeros(i - 1) \o BMulSmall(b, a[i]), BMulFrom(a, b, i + 1))

BMul(a, b) == Trim(BMulFrom(a, b, 1))

\* a * 2^k
BShl(a, k) ==
    IF a = <<>> THEN a
    ELSE Zeros(k \div 15) \o BMulSmall(a, 2^(k % 15))

\* floor(a / 2^k)
BShr(a, k) ==
    LET q == k \div 15
        r == k % 15
    IN  IF q >= Len(a) THEN <<>>
        ELSE Trim([i \in 1..(Len(a) - q) |->
                    (a[i + q] \div 2^r) + (Limb(a, i + q + 1) % 2^r) * 2^(15 - r)])

RECURSIVE SmallBitLen(_)
SmallBitLen(x) == IF x = 0 THEN 0 ELSE 1 + SmallBitLen(x \div 2)

BBitLen(a) == IF a = <<>> THEN 0 ELSE 15 * (Len(a) - 1) + SmallBitLen(a[Len(a)])

BIsOdd(a) == a # <<>> /\ a[1] % 2 = 1

\* One step of binary long division by d: s = [q, r] is the quotient and the
\* remainder of the bits taken so far, bit is the next lower bit of the dividend.
DivStep(s, bit, d) ==
    LET r2 == BAdd(BMulSmall(s.r, 2), BFromNat(bit))
        q2 == BMulSmall(s.q, 2)
    IN  IF BLeq(d, r2)
        THEN [q |-> BAdd(q2, <<1>>), r |-> BSub(r2, d)]
        ELSE [q |-> q2, r |-> r2]

\* The steps for bits k..0 of the limb x; every step starts from a
\* remainder below the divisor
RECURSIVE DivLimb(_, _, _, _)
DivLimb(s, x, k, d) ==
    IF k < 0 \/ ~BLess(s.r, d) THEN s
    ELSE DivLimb(DivStep(s, (x \div 2^k) % 2, d), x, k - 1, d)

\* Long division, most significant limb first:
\* [q |-> floor(n / d), r |-> n mod d]
RECURSIVE BDivMod(_, _)
BDivMod(n, d) ==
    IF n = <<>> THEN [q |-> <<>>, r |-> <<>>]
    ELSE DivLimb(BDivMod(Tail(n), d), n[1], 14, d)

(***************************************************************************)
(* Python float: IEEE 754 binary64, non-negative finite values, round to   *)
(* nearest, ties to even.  [m, e] stands for m * 2^e; the exponents of     *)
(* the script's values stay far from the overflow and subnormal ranges.    *)
(***************************************************************************)
FZero == [m |-> <<>>, e |-> 0]

FIsZero(x) == x.m = <<>>

\* The float nearest to n * 2^e; sticky says the exact value lies strictly
\* above n * 2^e (a division's remainder).
FRound(n, e, sticky) ==
    LET bl == BBitLen(n)
    IN  IF n = <<>> THEN FZero
        ELSE IF bl <= 53 THEN [m |-> BShl(n, 53 - bl), e |-> e - (53 - bl)]
        ELSE LET k    == bl - 53
                 q    == BShr(n, k)
                 rem  == BSub(n, BShl(q, k))
                 half == BShl(<<1>>, k - 1)
                 up   == \/ BLess(half, rem)
                         \/ rem = half /\ (sticky \/ BIsOdd(q))
                 q1   == IF up THEN BAdd(q, <<1>>) ELSE q
             IN  IF BBitLen(q1) > 53
                 THEN [m |-> BShr(q1, 1), e |-> e + k + 1]
                 ELSE [m |-> q1, e |-> e + k]

\* float(n) for a Python int n >= 0
FFromInt(n) == FRound(BFromNat(n), 0, FALSE)

\* x * y
FMul(x, y) ==
    IF FIsZero(x) \/ FIsZero(y) THEN FZero
    ELSE FRound(BMul(x.m, y.m), x.e + y.e, FALSE)

\* x / y, y nonzero
FDiv(x, y) ==
    IF FIsZero(x) THEN FZero
    ELSE LET d == BDivMod(BShl(x.m, 55), y.m)
         IN  FRound(d.q, x.e - y.e - 55, d.r # <<>>)

\* x < y
FLess(x, y) ==
    IF FIsZero(y) THEN FALSE
    ELSE IF FIsZero(x) THEN TRUE
    ELSE IF x.e # y.e THEN x.e < y.e ELSE BLess(x.m, y.m)

FLeq(x, y) == x = y \/ FLess(x, y)

\* 10^k, for k <= 18
Pow10(k) ==
    IF k <= 9 THEN BFromNat(10^k)
    ELSE BMul(BFromNat(10^9), BFromNat(10^(k - 9)))

\* The decimal literal n e-k (0.017 is 17e-3): the float nearest to n / 10^k
FLit(n, k) == FDiv(FFromInt(n), FRound(Pow10(k), 0, FALSE))

\* round(x): the nearest integer, ties to even, for x < 2^31
FRoundToInt(x) ==
    IF FIsZero(x) THEN 0
    ELSE LET k    == 0 - x.e
             q    == BShr(x.m, k)
             rem  == BSub(x.m, BShl(q, k))
             half == BShl(<<1>>, k - 1)
             qi   == Limb(q, 1) + Limb(q, 2) * Base + Limb(q, 3) * Base * Base
         IN  IF BLess(half, rem) \/ (rem = half /\ BIsOdd(q)) THEN qi + 1 ELSE qi

(***************************************************************************)
(* The script's state.                                                     *)
(***************************************************************************)
VARIABLES
    pc,                 \* source line of the next statement (EndOfFile: done)
    name,               \* __name__
    exc,                \* the uncaught exception that ended the run, or "None"
    component_system,   \* ComponentSystem
    binding_model,      \* Linear
    column,             \* GeneralRateModel
    inlet,              \* Inlet
    outlet,             \* Outlet
    flow_sheet,         \* FlowSheet: units and connections hold unit names
    process,            \* Process
    pulse_duration,
    c_pulse,
    c_initial,
    process_simulator,
    simulation_results, \* number of the simulator call that returned it
    peclet_number,
    peclet_numbers,
    enum_next,          \* enumerate(): the index the loop takes next
    loop_i,             \* i
    axes,
    stdout,             \* lines printed
    sim_calls,          \* what each simulate() call was given, in call order
    figures,            \* curves plotted on a figure of their own
    panels,             \* the sub-plots of plt.subplots: curves and title
    layout_done,        \* plt.tight_layout() was called
    rt                  \* the round trip Pe -> dispersion -> Pe

modelVars == <<component_system, binding_model, column, inlet, outlet,
               flow_sheet, process>>

localVars == <<pulse_duration, c_pulse, c_initial, process_simulator,
               simulation_results, peclet_number, peclet_numbers, enum_next,
               loop_i, axes>>

outVars == <<stdout, sim_calls, figures, panels, layout_done>>

vars == <<pc, name, exc, modelVars, localVars, outVars, rt>>

None == [kind |-> "None"]

Undefined == [kind |-> "undefined"]

MainName == "__main__"

ModuleName == "GRM_for_linear_LC"

\* The line after the last statement
EndOfFile == 150

\* n * [x]
Repeat(n, x) == [k \in 1..n |-> x]

\* 0.3 * (1e-2 / 60): the interstitial velocity u [m / s]
InterstitialVelocity == FMul(FLit(3, 1), FDiv(FLit(1, 2), FFromInt(60)))

\* Faulty variant of PecletOf: the quotient taken the wrong way round
PecletInverted(length, dispersion) ==
    FDiv(dispersion, FMul(length, InterstitialVelocity))

\* (length * (0.3 * (1e-2 / 60))) / dispersion
PecletOf(length, dispersion) ==
    FDiv(FMul(length, InterstitialVelocity), dispersion)

\* (length * (0.3 * (1e-2 / 60))) / peclet_number, peclet_number a float
DispersionOf(length, pe) ==
    FDiv(FMul(length, InterstitialVelocity), pe)

\* The setter of a per-component parameter: a scalar is stored once per
\* component (the script reads column.axial_dispersion[0])
PerComponent(n_comp, value) == Repeat(n_comp, value)

n_comp == Len(component_system.components)

\* Linear binding: one bound state per component
n_bound_states == IF column.binding_model = "Linear" THEN n_comp ELSE 0

\* column.cross_section_area_interstitial
cross_section_area_interstitial ==
    FMul(column.bed_porosity, column.cross_section_area)

RTIdle == [stage |-> "idle", Pe |-> FZero, dispersion |-> FZero,
           recomputed |-> FZero]

ScriptInit ==
    /\ pc = 44
    /\ name \in {MainName, ModuleName}
    /\ exc = "None"
    /\ component_system = Undefined
    /\ binding_model = Undefined
    /\ column = Undefined
    /\ inlet = Undefined
    /\ outlet = Undefined
    /\ flow_sheet = Undefined
    /\ process = Undefined
    /\ pulse_duration = Undefined
    /\ c_pulse = Undefined
    /\ c_initial = Undefined
    /\ process_simulator = Undefined
    /\ simulation_results = 0
    /\ peclet_number = Undefined
    /\ peclet_numbers = <<>>
    /\ enum_next = 0
    /\ loop_i = Undefined
    /\ axes = <<>>
    /\ stdout = <<>>
    /\ sim_calls = <<>>
    /\ figures = <<>>
    /\ panels = <<>>
    /\ layout_done = FALSE

Init == ScriptInit /\ rt = RTIdle

\* A statement at line `line` that runs and goes on to line `next`
Goto(line, next) == pc = line /\ exc = "None" /\ pc' = next /\ UNCHANGED <<name, exc, rt>>

\* import numpy, CADETProcess.processModel (lines 44-50)
Imports == Goto(44, 53) /\ UNCHANGED <<modelVars, localVars, outVars>>

(***************************************************************************)
(* Model assembly (lines 52-105).                                          *)
(***************************************************************************)
SetComponentSystem(v) ==
    /\ component_system' = v
    /\ UNCHANGED <<binding_model, column, inlet, outlet, flow_sheet, process>>
    /\ UNCHANGED <<localVars, outVars>>

SetBindingModel(v) ==
    /\ binding_model' = v
    /\ UNCHANGED <<component_system, column, inlet, outlet, flow_sheet, process>>
    /\ UNCHANGED <<localVars, outVars>>

SetColumn(v) ==
    /\ column' = v
    /\ UNCHANGED <<component_system, binding_model, inlet, outlet, flow_sheet,
                   process>>
    /\ UNCHANGED <<localVars, outVars>>

SetInlet(v) ==
    /\ inlet' = v
    /\ UNCHANGED <<component_system, binding_model, column, outlet, flow_sheet,
                   process>>
    /\ UNCHANGED <<localVars, outVars>>

SetOutlet(v) ==
    /\ outlet' = v
    /\ UNCHANGED <<component_system, binding_model, column, inlet, flow_sheet,
                   process>>
    /\ UNCHANGED <<localVars, outVars>>

SetFlowSheet(v) ==
    /\ flow_sheet' = v
    /\ UNCHANGED <<component_system, binding_model, column, inlet, outlet,
                   process>>
    /\ UNCHANGED <<localVars, outVars>>

SetProcess(v) ==
    /\ process' = v
    /\ UNCHANGED <<component_system, binding_model, column, inlet, outlet,
                   flow_sheet>>
    /\ UNCHANGED <<localVars, outVars>>

\* component_system = ComponentSystem()
L53_ComponentSystem ==
    Goto(53, 54) /\ SetComponentSystem([components |-> <<>>])

\* component_system.add_component('A')
L54_AddComponent ==
    /\ Goto(54, 57)
    /\ SetComponentSystem([component_system EXCEPT
                             !.components = Append(@, "A")])

\* binding_model = Linear(component_system, name='Linear')
L57_Linear ==
    /\ Goto(57, 58)
    /\ SetBindingModel([name |-> "Linear", is_kinetic |-> TRUE,
                        adsorption_rate |-> None, desorption_rate |-> None])

\* binding_model.is_kinetic = False
L58_IsKinetic ==
    Goto(58, 59) /\ SetBindingModel([binding_model EXCEPT !.is_kinetic = FALSE])

\* binding_model.adsorption_rate = [2.5]
L59_AdsorptionRate ==
    /\ Goto(59, 60)
    /\ SetBindingModel([binding_model EXCEPT !.adsorption_rate = <<FLit(25, 1)>>])

\* binding_model.desorption_rate = [1.0]
L60_DesorptionRate ==
    /\ Goto(60, 64)
    /\ SetBindingModel([binding_model EXCEPT !.desorption_rate = <<FLit(10, 1)>>])

\* column = GeneralRateModel(component_system, name='column')
L64_Column ==
    /\ Goto(64, 65)
    /\ SetColumn([name |-> "column", binding_model |-> "None",
                  length |-> None, cross_section_area |-> None,
                  bed_porosity |-> None, particle_radius |-> None,
                  particle_porosity |-> None, axial_dispersion |-> None,
                  film_diffusion |-> None, pore_diffusion |-> None,
                  surface_diffusion |-> None, c |-> None, q |-> None])

\* column.binding_model = binding_model: a reference, kept as the model's name
L65_ColumnBindingModel ==
    Goto(65, 66) /\ SetColumn([column EXCEPT !.binding_model = binding_model.name])

\* 0.017: the column length L [m]
ColumnLength == FLit(17, 3)

\* column.length = 0.017
L66_Length ==
    Goto(66, 67) /\ SetColumn([column EXCEPT !.length = ColumnLength])

\* column.cross_section_area = 1e-3
L67_CrossSectionArea ==
    Goto(67, 68) /\ SetColumn([column EXCEPT !.cross_section_area = FLit(1, 3)])

\* column.bed_porosity = 0.4
L68_BedPorosity ==
    Goto(68, 69) /\ SetColumn([column EXCEPT !.bed_porosity = FLit(4, 1)])

\* column.particle_radius = 4.0e-5
L69_ParticleRadius ==
    Goto(69, 70) /\ SetColumn([column EXCEPT !.particle_radius = FLit(40, 6)])

\* column.particle_porosity = 0.333
L70_ParticlePorosity ==
    Goto(70, 71) /\ SetColumn([column EXCEPT !.particle_porosity = FLit(333, 3)])

\* Faulty variant of L71_AxialDispersion: 3.33e-8, a slip in the exponent
L71_AxialDispersionTypo ==
    /\ Goto(71, 72)
    /\ SetColumn([column EXCEPT
                    !.axial_dispersion = PerComponent(n_comp, FLit(333, 10))])

\* column.axial_dispersion = 3.33e-9
L71_AxialDispersion ==
    /\ Goto(71, 72)
    /\ SetColumn([column EXCEPT
                    !.axial_dispersion = PerComponent(n_comp, FLit(333, 11))])

\* column.film_diffusion = column.n_comp * [1.67e-6]
L72_FilmDiffusion ==
    /\ Goto(72, 73)
    /\ SetColumn([column EXCEPT !.film_diffusion = Repeat(n_comp, FLit(167, 8))])

\* column.pore_diffusion = column.n_comp * [3.003e-6]
L73_PoreDiffusion ==
    /\ Goto(73, 74)
    /\ SetColumn([column EXCEPT !.pore_diffusion = Repeat(n_comp, FLit(3003, 9))])

\* column.surface_diffusion = column.n_bound_states * [0.0]
L74_SurfaceDiffusion ==
    /\ Goto(74, 75)
    /\ SetColumn([column EXCEPT
                    !.surface_diffusion = Repeat(n_bound_states, FLit(0, 1))])

\* column.c = [0.0]
L75_C ==
    Goto(75, 76) /\ SetColumn([column EXCEPT !.c = <<FLit(0, 1)>>])

\* column.q = [0.0]
L76_Q ==
    Goto(76, 78) /\ SetColumn([column EXCEPT !.q = <<FLit(0, 1)>>])

\* inlet = Inlet(component_system, name='inlet')
L78_Inlet ==
    Goto(78, 79) /\ SetInlet([name |-> "inlet", flow_rate |-> None, c |-> None])

\* inlet.flow_rate = column.cross_section_area_interstitial * (0.3 * (1e-2 / 60))
L79_FlowRate ==
    /\ Goto(79, 81)
    /\ SetInlet([inlet EXCEPT
                   !.flow_rate = FMul(cross_section_area_interstitial,
                                      InterstitialVelocity)])

\* outlet = Outlet(component_system, name='outlet')
L81_Outlet ==
    Goto(81, 85) /\ SetOutlet([name |-> "outlet"])

\* flow_sheet = FlowSheet(component_system)
L85_FlowSheet ==
    /\ Goto(85, 87)
    /\ SetFlowSheet([units |-> <<>>, connections |-> {}, product_outlets |-> {}])

Range(seq) == {seq[k] : k \in 1..Len(seq)}

\* flow_sheet.add_unit(unit, product_outlet)
add_unit(fs, unit, product_outlet) ==
    [fs EXCEPT !.units = Append(@, unit.name),
               !.product_outlets = IF product_outlet THEN @ \cup {unit.name}
                                   ELSE @]

\* flow_sheet.add_connection(origin, destination)
add_connection(fs, origin, destination) ==
    [fs EXCEPT !.connections = @ \cup {<<origin.name, destination.name>>}]

\* flow_sheet.add_unit(inlet)
L87_AddInlet ==
    Goto(87, 88) /\ SetFlowSheet(add_unit(flow_sheet, inlet, FALSE))

\* flow_sheet.add_unit(column)
L88_AddColumn ==
    Goto(88, 89) /\ SetFlowSheet(add_unit(flow_sheet, column, FALSE))

\* flow_sheet.add_unit(outlet, product_outlet=True)
L89_AddOutlet ==
    Goto(89, 91) /\ SetFlowSheet(add_unit(flow_sheet, outlet, TRUE))

\* flow_sheet.add_connection(inlet, column)
L91_ConnectInletColumn ==
    Goto(91, 92) /\ SetFlowSheet(add_connection(flow_sheet, inlet, column))

\* Faulty variant of L92_ConnectColumnOutlet: the outlet fed from the inlet
L92_ConnectInletOutlet ==
    Goto(92, 97) /\ SetFlowSheet(add_connection(flow_sheet, inlet, outlet))

\* flow_sheet.add_connection(column, outlet)
L92_ConnectColumnOutlet ==
    Goto(92, 97) /\ SetFlowSheet(add_connection(flow_sheet, column, outlet))

\* process = Process(flow_sheet, 'pulse'): the flow sheet is held by reference
L97_Process ==
    /\ Goto(97, 98)
    /\ SetProcess([name |-> "pulse", flow_sheet |-> "flow_sheet",
                   cycle_time |-> None, events |-> <<>>])

\* process.cycle_time = 100 * 60
L98_CycleTime ==
    Goto(98, 99) /\ SetProcess([process EXCEPT !.cycle_time = 100 * 60])

\* Faulty variant of L99_PulseDuration: the minutes not converted to seconds
L99_PulseDurationMinutes ==
    /\ Goto(99, 101)
    /\ pulse_duration' = FLit(200, 1)
    /\ UNCHANGED <<modelVars, outVars>>
    /\ UNCHANGED <<c_pulse, c_initial, process_simulator, simulation_results,
                   peclet_number, peclet_numbers, enum_next, loop_i, axes>>

\* pulse_duration = 20.0 * 60
L99_PulseDuration ==
    /\ Goto(99, 101)
    /\ pulse_duration' = FMul(FLit(200, 1), FFromInt(60))
    /\ UNCHANGED <<modelVars, outVars>>
    /\ UNCHANGED <<c_pulse, c_initial, process_simulator, simulation_results,
                   peclet_number, peclet_numbers, enum_next, loop_i, axes>>

\* c_pulse = np.array([1.0])
L101_CPulse ==
    /\ Goto(101, 102)
    /\ c_pulse' = <<FLit(10, 1)>>
    /\ UNCHANGED <<modelVars, outVars>>
    /\ UNCHANGED <<pulse_duration, c_initial, process_simulator,
                   simulation_results, peclet_number, peclet_numbers, enum_next,
                   loop_i, axes>>

\* c_initial = np.array([0.0])
L102_CInitial ==
    /\ Goto(102, 104)
    /\ c_initial' = <<FLit(0, 1)>>
    /\ UNCHANGED <<modelVars, outVars>>
    /\ UNCHANGED <<pulse_duration, c_pulse, process_simulator,
                   simulation_results, peclet_number, peclet_numbers, enum_next,
                   loop_i, axes>>

\* The time of an event added without one
DefaultEventTime == FZero

\* process.add_event(name, parameter_path, state, time)
add_event(p, event_name, parameter_path, state, time) ==
    [p EXCEPT !.events = Append(@, [name |-> event_name,
                                    parameter_path |-> parameter_path,
                                    state |-> state, time |-> time])]

\* process.add_event('pulse_start', 'flow_sheet.inlet.c', c_pulse)
L104_PulseStart ==
    /\ Goto(104, 105)
    /\ SetProcess(add_event(process, "pulse_start", "flow_sheet.inlet.c",
                            c_pulse, DefaultEventTime))

\* Faulty variant of L105_PulseStop: the time argument left out
L105_PulseStopNoTime ==
    /\ Goto(105, 109)
    /\ SetProcess(add_event(process, "pulse_stop", "flow_sheet.inlet.c",
                            c_initial, DefaultEventTime))

\* process.add_event('pulse_stop', 'flow_sheet.inlet.c', c_initial, pulse_duration)
L105_PulseStop ==
    /\ Goto(105, 109)
    /\ SetProcess(add_event(process, "pulse_stop", "flow_sheet.inlet.c",
                            c_initial, pulse_duration))

Assembly ==
    \/ Imports
    \/ L53_ComponentSystem \/ L54_AddComponent
    \/ L57_Linear \/ L58_IsKinetic \/ L59_AdsorptionRate \/ L60_DesorptionRate
    \/ L64_Column \/ L65_ColumnBindingModel \/ L66_Length
    \/ L67_CrossSectionArea \/ L68_BedPorosity \/ L69_ParticleRadius
    \/ L70_ParticlePorosity \/ L71_AxialDispersion \/ L72_FilmDiffusion
    \/ L73_PoreDiffusion \/ L74_SurfaceDiffusion \/ L75_C \/ L76_Q
    \/ L78_Inlet \/ L79_FlowRate \/ L81_Outlet
    \/ L85_FlowSheet \/ L87_AddInlet \/ L88_AddColumn \/ L89_AddOutlet
    \/ L91_ConnectInletColumn \/ L92_ConnectColumnOutlet
    \/ L97_Process \/ L98_CycleTime \/ L99_PulseDuration
    \/ L101_CPulse \/ L102_CInitial \/ L104_PulseStart \/ L105_PulseStop

(***************************************************************************)
(* Simulation and plots (lines 108-148).                                   *)
(***************************************************************************)
\* print(__name__)
L109_PrintName ==
    /\ Goto(109, 110)
    /\ stdout' = Append(stdout, name)
    /\ UNCHANGED <<modelVars, localVars>>
    /\ UNCHANGED <<sim_calls, figures, panels, layout_done>>

\* if __name__ == '__main__':
L110_IfMain ==
    /\ Goto(110, IF name = MainName THEN 111 ELSE 121)
    /\ UNCHANGED <<modelVars, localVars, outVars>>

\* from CADETProcess.simulator import Cadet
L111_ImportCadet ==
    Goto(111, 112) /\ UNCHANGED <<modelVars, localVars, outVars>>

\* process_simulator = Cadet()
Cadet(line, next) ==
    /\ Goto(line, next)
    /\ process_simulator' = [kind |-> "Cadet"]
    /\ UNCHANGED <<modelVars, outVars>>
    /\ UNCHANGED <<pulse_duration, c_pulse, c_initial, simulation_results,
                   peclet_number, peclet_numbers, enum_next, loop_i, axes>>

L112_Cadet == Cadet(112, 114)

\* What simulate(process) is given: the process, and through its references
\* the flow sheet, the units and the binding model as they are at the call
ProcessGiven ==
    [process |-> process, flow_sheet |-> flow_sheet, inlet |-> inlet,
     column |-> column, outlet |-> outlet, binding_model |-> binding_model]

\* Faulty variant of Simulate: a failure is swallowed and the script goes on with
\* the results it had
SimulateSwallow(line, next) ==
    /\ Goto(line, next)
    /\ \E ok \in BOOLEAN :
         /\ sim_calls' = Append(sim_calls, [given |-> ProcessGiven, ok |-> ok])
         /\ simulation_results' =
              (IF ok THEN Len(sim_calls) + 1 ELSE simulation_results)
    /\ UNCHANGED modelVars
    /\ UNCHANGED <<pulse_duration, c_pulse, c_initial, process_simulator,
                   peclet_number, peclet_numbers, enum_next, loop_i, axes>>
    /\ UNCHANGED <<stdout, figures, panels, layout_done>>

\* simulation_results = process_simulator.simulate(process)
\* The simulator is external: it returns results or raises, and an exception
\* is caught nowhere, so it ends the run.
Simulate(line, next) ==
    /\ pc = line /\ exc = "None"
    /\ \E ok \in BOOLEAN :
         /\ sim_calls' = Append(sim_calls, [given |-> ProcessGiven, ok |-> ok])
         /\ IF ok
            THEN /\ simulation_results' = Len(sim_calls) + 1
                 /\ pc' = next
                 /\ exc' = exc
            ELSE /\ exc' = "SimulationError"
                 /\ UNCHANGED <<pc, simulation_results>>
    /\ UNCHANGED <<name, rt, modelVars>>
    /\ UNCHANGED <<pulse_duration, c_pulse, c_initial, process_simulator,
                   peclet_number, peclet_numbers, enum_next, loop_i, axes>>
    /\ UNCHANGED <<stdout, figures, panels, layout_done>>

L114_Simulate == Simulate(114, 115)

\* simulation_results.solution.column.outlet.plot(): a figure of its own
L115_Plot ==
    /\ Goto(115, 121)
    /\ figures' = Append(figures, [curve |-> simulation_results])
    /\ UNCHANGED <<modelVars, localVars>>
    /\ UNCHANGED <<stdout, sim_calls, panels, layout_done>>

\* column.axial_dispersion (an expression statement)
L121_ShowDispersion ==
    Goto(121, 124) /\ UNCHANGED <<modelVars, localVars, outVars>>

\* peclet_number = (column.length * (0.3 * (1e-2 / 60))) / column.axial_dispersion[0]
L124_PecletNumber ==
    /\ Goto(124, 125)
    /\ peclet_number' = PecletOf(column.length, column.axial_dispersion[1])
    /\ UNCHANGED <<modelVars, outVars>>
    /\ UNCHANGED <<pulse_duration, c_pulse, c_initial, process_simulator,
                   simulation_results, peclet_numbers, enum_next, loop_i, axes>>

\* peclet_number (an expression statement)
L125_ShowPeclet ==
    Goto(125, 133) /\ UNCHANGED <<modelVars, localVars, outVars>>

\* if __name__ == '__main__':
L133_IfMain ==
    /\ Goto(133, IF name = MainName THEN 134 ELSE EndOfFile)
    /\ UNCHANGED <<modelVars, localVars, outVars>>

\* import matplotlib.pyplot as plt
L134_ImportPlt ==
    Goto(134, 135) /\ UNCHANGED <<modelVars, localVars, outVars>>

\* from CADETProcess.simulator import Cadet
L135_ImportCadet ==
    Goto(135, 136) /\ UNCHANGED <<modelVars, localVars, outVars>>

L136_Cadet == Cadet(136, 138)

\* fig, axes = plt.subplots(3, 2, figsize = [10, 12]): a grid of empty
\* sub-plots, numbered row by row
L138_Subplots ==
    /\ Goto(138, 139)
    /\ panels' = [k \in 1..(3 * 2) |-> [curves |-> <<>>, title |-> ""]]
    /\ axes' = [r \in 1..3 |-> [c \in 1..2 |-> (r - 1) * 2 + c]]
    /\ UNCHANGED <<modelVars>>
    /\ UNCHANGED <<pulse_duration, c_pulse, c_initial, process_simulator,
                   simulation_results, peclet_number, peclet_numbers, enum_next,
                   loop_i>>
    /\ UNCHANGED <<stdout, sim_calls, figures, layout_done>>

\* ndarray.flatten(): the rows one after the other
flatten(a) ==
    [k \in 1..(Len(a) * Len(a[1])) |->
        a[((k - 1) \div Len(a[1])) + 1][((k - 1) % Len(a[1])) + 1]]

\* axes = axes.flatten()
L139_Flatten ==
    /\ Goto(139, 141)
    /\ axes' = flatten(axes)
    /\ UNCHANGED <<modelVars, outVars>>
    /\ UNCHANGED <<pulse_duration, c_pulse, c_initial, process_simulator,
                   simulation_results, peclet_number, peclet_numbers, enum_next,
                   loop_i>>

\* Faulty variant of L141_PecletNumbers: the last sweep point missing
L141_PecletNumbersShort ==
    /\ Goto(141, 142)
    /\ peclet_numbers' = <<1, 5, 25, 50, 100>>
    /\ UNCHANGED <<modelVars, outVars>>
    /\ UNCHANGED <<pulse_duration, c_pulse, c_initial, process_simulator,
                   simulation_results, peclet_number, enum_next, loop_i, axes>>

\* peclet_numbers = [1, 5, 25, 50, 100, 255]
L141_PecletNumbers ==
    /\ Goto(141, 142)
    /\ peclet_numbers' = <<1, 5, 25, 50, 100, 255>>
    /\ UNCHANGED <<modelVars, outVars>>
    /\ UNCHANGED <<pulse_duration, c_pulse, c_initial, process_simulator,
                   simulation_results, peclet_number, enum_next, loop_i, axes>>

\* for i, peclet_number in enumerate(peclet_numbers):
\* takes the next (index, element) pair, or leaves the loop after the last
L142_For ==
    /\ pc = 142 /\ exc = "None"
    /\ IF enum_next < Len(peclet_numbers)
       THEN /\ loop_i' = enum_next
            /\ peclet_number' = peclet_numbers[enum_next + 1]
            /\ enum_next' = enum_next + 1
            /\ pc' = 143
       ELSE /\ pc' = 148
            /\ UNCHANGED <<loop_i, peclet_number, enum_next>>
    /\ UNCHANGED <<name, exc, rt, modelVars, outVars>>
    /\ UNCHANGED <<pulse_duration, c_pulse, c_initial, process_simulator,
                   simulation_results, peclet_numbers, axes>>

\* Faulty variant of L143_SetDispersion: the Peclet number of the iteration before
L143_StaleDispersion ==
    /\ Goto(143, 144)
    /\ SetColumn([column EXCEPT
                    !.axial_dispersion =
                        PerComponent(n_comp,
                                     DispersionOf(column.length,
                                                  FFromInt(peclet_numbers[Max(loop_i, 1)])))])

\* Faulty variant of L143_SetDispersion: the value assigned to the wrong attribute
L143_SetLength ==
    /\ Goto(143, 144)
    /\ SetColumn([column EXCEPT
                    !.length = DispersionOf(column.length,
                                            FFromInt(peclet_number))])

\* column.axial_dispersion = (column.length * (0.3 * (1e-2 / 60))) / peclet_number
L143_SetDispersion ==
    /\ Goto(143, 144)
    /\ SetColumn([column EXCEPT
                    !.axial_dispersion =
                        PerComponent(n_comp,
                                     DispersionOf(column.length,
                                                  FFromInt(peclet_number)))])

L144_Simulate == Simulate(144, 145)

\* ax.plot of the results' outlet curve
plot(ps, ax, curve) == [ps EXCEPT ![ax].curves = Append(@, curve)]

\* ax.set_title(title)
set_title(ps, ax, title) == [ps EXCEPT ![ax].title = title]

\* simulation_results.solution.column.outlet.plot(ax = axes[i])
L145_PlotPanel ==
    /\ Goto(145, 146)
    /\ panels' = plot(panels, axes[loop_i + 1], simulation_results)
    /\ UNCHANGED <<modelVars, localVars>>
    /\ UNCHANGED <<stdout, sim_calls, figures, layout_done>>

\* axes[i].set_title(f"Peclet number: {peclet_number}")
L146_SetTitle ==
    /\ Goto(146, 142)
    /\ panels' = set_title(panels, axes[loop_i + 1],
                           "Peclet number: " \o ToString(peclet_number))
    /\ UNCHANGED <<modelVars, localVars>>
    /\ UNCHANGED <<stdout, sim_calls, figures, layout_done>>

\* plt.tight_layout()
L148_TightLayout ==
    /\ Goto(148, EndOfFile)
    /\ layout_done' = TRUE
    /\ UNCHANGED <<modelVars, localVars>>
    /\ UNCHANGED <<stdout, sim_calls, figures, panels>>

Run ==
    \/ L109_PrintName \/ L110_IfMain \/ L111_ImportCadet \/ L112_Cadet
    \/ L114_Simulate \/ L115_Plot
    \/ L121_ShowDispersion \/ L124_PecletNumber \/ L125_ShowPeclet
    \/ L133_IfMain \/ L134_ImportPlt \/ L135_ImportCadet \/ L136_Cadet
    \/ L138_Subplots \/ L139_Flatten \/ L141_PecletNumbers \/ L142_For
    \/ L143_SetDispersion \/ L144_Simulate \/ L145_PlotPanel \/ L146_SetTitle
    \/ L148_TightLayout

Next == Assembly \/ Run

Spec == Init /\ [][Next]_vars

(***************************************************************************)
(* The round trip of the sweep's formula: a Peclet number Pe, the          *)
(* dispersion the sweep assigns for it (line 143), and the Peclet number   *)
(* the script's formula (line 124) computes back from that dispersion.     *)
(* Pe ranges over the floats num / den.                                    *)
(***************************************************************************)
MaxPeNum == 255

MaxPeDen == 4

RTInputs ==
    {FDiv(FFromInt(num), FFromInt(den)) : num \in 1..MaxPeNum, den \in 1..MaxPeDen}

RTInit ==
    /\ ScriptInit
    /\ name = ModuleName
    /\ rt \in {[stage |-> "input", Pe |-> pe, dispersion |-> FZero,
                recomputed |-> FZero] : pe \in RTInputs}

RTScriptVars == <<pc, name, exc, modelVars, localVars, outVars>>

\* dispersion = (length * velocity) / Pe
RTDispersion ==
    /\ rt.stage = "input"
    /\ rt' = [rt EXCEPT !.stage = "dispersion",
                        !.dispersion = DispersionOf(ColumnLength, rt.Pe)]
    /\ UNCHANGED RTScriptVars

\* recomputed_Pe = (length * velocity) / dispersion
RTRecompute ==
    /\ rt.stage = "dispersion"
    /\ rt' = [rt EXCEPT !.stage = "recomputed",
                        !.recomputed = PecletOf(ColumnLength, rt.dispersion)]
    /\ UNCHANGED RTScriptVars

RTNext == RTDispersion \/ RTRecompute

SpecRoundTrip == RTInit /\ [][RTNext]_vars

\* |x - y| <= n * ulp(y), ulp(y) the value of the last bit of y's mantissa
WithinUlps(x, y, n) ==
    LET lo == IF x.e < y.e THEN x.e ELSE y.e
        xs == BShl(x.m, x.e - lo)
        ys == BShl(y.m, y.e - lo)
        df == IF BLess(xs, ys) THEN BSub(ys, xs) ELSE BSub(xs, ys)
    IN  BLeq(df, BShl(BFromNat(n), y.e - lo))

(***************************************************************************)
(* How the simulator applies a process's events (it is external to the     *)
(* script): in increasing time order, so that a parameter holds, at time   *)
(* t, the state of the latest event on it at or before t; of two events    *)
(* at the same time the one added later is applied last.                   *)
(***************************************************************************)
\* Event j is applied before event k
Before(events, k, j) ==
    \/ FLess(events[j].time, events[k].time)
    \/ events[j].time = events[k].time /\ j < k

\* The events on parameter_path at or before t (strictly before, if strict)
Applied(events, parameter_path, t, strict) ==
    {k \in 1..Len(events) :
        /\ events[k].parameter_path = parameter_path
        /\ IF strict THEN FLess(events[k].time, t) ELSE FLeq(events[k].time, t)}

\* The value of parameter_path at time t (just before t, if strict);
\* <<>> when no event has set it yet
ValueAt(events, parameter_path, t, strict) ==
    LET ks == Applied(events, parameter_path, t, strict)
    IN  IF ks = {} THEN <<>>
        ELSE events[CHOOSE k \in ks :
                       \A j \in ks \ {k} : Before(events, k, j)].state

\* The times within (0, horizon] at which the value of parameter_path changes
SwitchTimes(events, parameter_path, horizon) ==
    {events[k].time : k \in
        {j \in 1..Len(events) :
            /\ events[j].parameter_path = parameter_path
            /\ FLess(FZero, events[j].time)
            /\ FLeq(events[j].time, horizon)
            /\ ValueAt(events, parameter_path, events[j].time, TRUE)
                 # ValueAt(events, parameter_path, events[j].time, FALSE)}}

(***************************************************************************)
(* Properties.                                                             *)
(***************************************************************************)
\* The sweep's Peclet numbers and the baseline dispersion, as the
\* specification states them
SweepList == <<1, 5, 25, 50, 100, 255>>

Baseline == FLit(333, 11)

\* (length * velocity) / Pe for the k-th Peclet number of the sweep
SweepDispersion(k) ==
    <<FDiv(FMul(FLit(17, 3), InterstitialVelocity), FFromInt(SweepList[k]))>>

InSweep == name = MainName /\ pc \in {143, 144, 145, 146}

\* C1: the sweep takes the Peclet numbers in the order 1, 5, 25, 50, 100,
\* 255; in iteration i it first sets the dispersion to (length * velocity) /
\* Pe_i, then calls the simulator once, then plots that call's result into
\* panel i, then titles the panel with Pe_i.  Every simulator call of the
\* sweep is given the dispersion of its own panel's Peclet number.
C1_SweepOrder ==
    /\ InSweep =>
         /\ enum_next = loop_i + 1
         /\ peclet_number = SweepList[loop_i + 1]
         /\ Len(sim_calls) = (IF pc \in {143, 144} /\ exc = "None"
                              THEN loop_i + 1 ELSE loop_i + 2)
         /\ pc \in {144, 145, 146} =>
              column.axial_dispersion = SweepDispersion(loop_i + 1)
         /\ pc \in {145, 146} => simulation_results = loop_i + 2
         /\ panels[axes[loop_i + 1]].curves =
              (IF pc = 146 THEN <<loop_i + 2>> ELSE <<>>)
         /\ panels[axes[loop_i + 1]].title = ""
    /\ \A j \in 2..Len(sim_calls) :
         sim_calls[j].given.column.axial_dispersion = SweepDispersion(j - 1)
    /\ \A k \in 1..Len(panels) :
         /\ panels[k].curves # <<>> =>
              /\ panels[k].curves = <<k + 1>>
              /\ sim_calls[k + 1].ok
              /\ \A h \in 1..(k - 1) : panels[h].title # ""
         /\ panels[k].title # "" =>
              /\ panels[k].title = "Peclet number: " \o ToString(SweepList[k])
              /\ panels[k].curves # <<>>

C1_Witness ==
    /\ pc = 148
    /\ \A k \in 1..6 : panels[k].title # ""

\* C2: for every positive Pe, the dispersion the sweep assigns is
\* (length * velocity) / Pe, and the Peclet number recomputed from it,
\* (length * velocity) / dispersion, is Pe again, within one unit in the
\* last place.
C2_RoundTrip ==
    /\ rt.stage \in {"dispersion", "recomputed"} =>
         rt.dispersion = FDiv(FMul(FLit(17, 3), InterstitialVelocity), rt.Pe)
    /\ rt.stage = "recomputed" => WithinUlps(rt.recomputed, rt.Pe, 1)

\* The round trip of a Pe that does not come back bit for bit
C2_Witness == rt.stage = "recomputed" /\ rt.recomputed # rt.Pe

\* The grid of sample times over the horizon has this step [s]
TimeStep == 50

SampleTimes ==
    {FFromInt(k * TimeStep) : k \in 0..(process.cycle_time \div TimeStep)}
        \cup {FFromInt(process.cycle_time)}
        \cup {process.events[k].time : k \in 1..Len(process.events)}

\* C3: with the events applied in increasing time order, the inlet
\* concentration over [0, cycle_time] is c_pulse (1.0) at every t with
\* 0 <= t < pulse_duration and c_initial (0.0) at every t with
\* pulse_duration <= t <= cycle_time; it changes exactly once, at
\* t = pulse_duration.
C3_PulseProfile ==
    pc > 105 =>
      /\ \A t \in SampleTimes :
           FLeq(t, FFromInt(process.cycle_time)) =>
             ValueAt(process.events, "flow_sheet.inlet.c", t, FALSE) =
               (IF FLess(t, pulse_duration) THEN <<FLit(10, 1)>>
                                            ELSE <<FLit(0, 1)>>)
      /\ SwitchTimes(process.events, "flow_sheet.inlet.c",
                     FFromInt(process.cycle_time)) = {pulse_duration}

C3_Witness == pc = 115 /\ Len(sim_calls) = 1

\* C4: whenever the simulator is invoked, the process holds exactly the
\* events pulse_start and pulse_stop, with pulse_start.time = 0 <
\* pulse_stop.time = 1200 <= cycle_time = 6000.
C4_EventTimes ==
    \A j \in 1..Len(sim_calls) :
      LET p == sim_calls[j].given.process
      IN  /\ Len(p.events) = 2
          /\ p.events[1].name = "pulse_start"
          /\ p.events[2].name = "pulse_stop"
          /\ p.events[1].time = FZero
          /\ p.events[2].time = FFromInt(1200)
          /\ p.cycle_time = 6000
          /\ FLess(p.events[1].time, p.events[2].time)
          /\ FLeq(p.events[2].time, FFromInt(p.cycle_time))

C4_Witness == Len(sim_calls) = 7

\* C5: run under another __name__ than '__main__', the script has no
\* observable effect: nothing is printed, simulated or plotted.
C5_ImportSilent ==
    name # MainName =>
      /\ stdout = <<>>
      /\ sim_calls = <<>>
      /\ figures = <<>>
      /\ panels = <<>>
      /\ ~layout_done

\* C6: a simulator call that fails is the last thing the run does: it is
\* not retried and nothing follows it; when it fails in sweep iteration k,
\* panel k and all later panels stay empty and the dispersion is the one of
\* iteration k.
C6_AbortOnFailure ==
    /\ \A j \in 1..Len(sim_calls) : ~sim_calls[j].ok => j = Len(sim_calls)
    /\ (sim_calls # <<>> /\ ~sim_calls[Len(sim_calls)].ok) =>
         /\ exc = "SimulationError"
         /\ ~ENABLED Next
         /\ pc = 144 =>
              /\ Len(sim_calls) = loop_i + 2
              /\ enum_next = loop_i + 1
              /\ column.axial_dispersion = SweepDispersion(loop_i + 1)
              /\ \A k \in (loop_i + 1)..Len(panels) :
                   panels[k].curves = <<>> /\ panels[k].title = ""
              /\ ~layout_done

C6_Witness == exc = "SimulationError" /\ pc = 144 /\ loop_i = 2

\* C7: for the script's literal inputs the Peclet number computed at line
\* 124, (length * velocity) / dispersion, rounds to 255.
C7_Peclet255 ==
    (pc > 124 /\ enum_next = 0) => FRoundToInt(peclet_number) = 255

C7_Witness == pc = 125 /\ peclet_number # FFromInt(255)

OtherColumnParameters(col) == [col EXCEPT !.axial_dispersion = <<>>]

\* C8: from the end of model assembly on, a step changes no attribute of
\* the model but the column's axial_dispersion.
C8_OnlyDispersionWritten ==
    [][pc >= 109 =>
         /\ process' = process
         /\ flow_sheet' = flow_sheet
         /\ inlet' = inlet
         /\ outlet' = outlet
         /\ binding_model' = binding_model
         /\ component_system' = component_system
         /\ OtherColumnParameters(column)' = OtherColumnParameters(column)]_vars

C8_Witness ==
    pc = EndOfFile /\ name = MainName /\ column.axial_dispersion # <<Baseline>>

Upstream(fs, unit) == {c \in fs.connections : c[2] = unit}

StrictChain(fs) ==
    /\ fs.units = <<"inlet", "column", "outlet">>
    /\ fs.connections = {<<"inlet", "column">>, <<"column", "outlet">>}
    /\ Upstream(fs, "inlet") = {}
    /\ Cardinality(Upstream(fs, "column")) = 1
    /\ Cardinality(Upstream(fs, "outlet")) = 1

\* C9: after flow-sheet assembly and at every simulator call the flow sheet
\* is the chain inlet -> column -> outlet; at all times every connection
\* joins two units already added.
C9_StrictChain ==
    /\ pc > 85 =>
         \A c \in flow_sheet.connections :
            c[1] \in Range(flow_sheet.units) /\ c[2] \in Range(flow_sheet.units)
    /\ pc > 92 => StrictChain(flow_sheet)
    /\ \A j \in 1..Len(sim_calls) : StrictChain(sim_calls[j].given.flow_sheet)

C9_Witness == pc = 145 /\ loop_i = 0

\* C10: after a complete run as __main__ the dispersion is the one of the
\* last sweep point, (length * velocity) / 255, not the baseline 3.33e-9 of
\* the first simulation, and the simulator has been invoked 7 times.
C10_NoRestore ==
    (pc = EndOfFile /\ name = MainName) =>
      /\ column.axial_dispersion = SweepDispersion(6)
      /\ column.axial_dispersion # <<Baseline>>
      /\ Len(sim_calls) = 7
      /\ sim_calls[1].given.column.axial_dispersion = <<Baseline>>
      /\ sim_calls[7].given.column.axial_dispersion = SweepDispersion(6)
      /\ sim_calls[7].given.column.axial_dispersion
           # sim_calls[1].given.column.axial_dispersion

C10_Witness == pc = EndOfFile /\ name = MainName /\ layout_done

====
